---- MODULE Spec2Model ----
(***************************************************************************)
(* Jarvis22 orchestrator: the run ledger (jarvis/db.py), the per-issue     *)
(* pipeline Orchestrator.process_issue, its two entry points poll_once and *)
(* run_single (jarvis/orchestrator.py), the backend dispatch               *)
(* (jarvis/agent.py) and the workspace / SCM calls it drives.              *)
(*                                                                         *)
(* Names are resolved against the declarations of the source: an attribute *)
(* that no declaration provides (RunStatus.DEFERRED, RunStatus.NEEDS_HUMAN,*)
(* Config.max_issues_per_poll) raises AttributeError at the place it is    *)
(* evaluated, as the interpreter does.                                     *)
(***************************************************************************)
EXTENDS Integers, Sequences, FiniteSets, TLC

\* ------------------------------------------------------------------ bounds
\* Capacity of the ledger in the model: no entry point starts once it is full.
MaxRuns == 2

\* ------------------------------------------------------- program constants
\* Config.review_rounds default.
review_rounds == 2

\* Orchestrator instances sharing the ledger.
Procs == {"p1"}

\* Config.target_repos, in configuration order.
target_repos == <<"rA", "rB">>

\* The issues of the hosting provider: <<repo, number>>.
Issues == {<<"rA", 1>>, <<"rB", 1>>}

\* Config label defaults.
issue_label == "jarvis"
ready_label == "ready"
done_label == "jarvis-done"
needs_human_label == "jarvis-needs-human"
model_label_claude == "jarvis-cl"
model_label_codex == "jarvis-co"
model_label_gemini == "jarvis-gem"

\* The labels the issues carry when the system starts: one issue with the
\* trigger label, one that also selects codex.
InitialLabels ==
  [i \in Issues |-> IF i[1] = "rA" THEN {issue_label}
                    ELSE {issue_label, model_label_codex}]

\* The fields the Config dataclass declares.
ConfigFields ==
  {"github_token", "target_repos", "anthropic_api_key", "poll_interval",
   "issue_label", "ready_label", "done_label", "needs_human_label",
   "model_label_claude", "model_label_codex", "model_label_gemini",
   "workspace_dir", "db_path", "branch_prefix", "claude_model", "codex_model",
   "gemini_model", "review_rounds", "reviewer_backend_order", "test_cmd",
   "test_timeout_s", "webhook_port", "webhook_secret", "log_level",
   "session_timeout", "issue_timeout", "max_diff_files", "max_diff_loc",
   "max_tokens_per_run", "token_warning_buffer", "codex_binary",
   "reports_dir", "jarvis_repo_dir", "publish"}

\* The RunStatus enum with the DEFERRED and NEEDS_HUMAN members.
RunStatus_with_needs_human ==
  {"pending", "running", "success", "failed", "timeout", "blocked",
   "deferred", "needs_human"}

\* The members of the RunStatus enum, by value.
RunStatus == {"pending", "running", "success", "failed", "timeout", "blocked"}

\* The member names the code refers to, with the value each would carry.
StatusNames == {"PENDING", "RUNNING", "SUCCESS", "FAILED", "TIMEOUT", "BLOCKED",
                "DEFERRED", "NEEDS_HUMAN"}

StatusValue(name) ==
  CASE name = "PENDING" -> "pending"
    [] name = "RUNNING" -> "running"
    [] name = "SUCCESS" -> "success"
    [] name = "FAILED" -> "failed"
    [] name = "TIMEOUT" -> "timeout"
    [] name = "BLOCKED" -> "blocked"
    [] name = "DEFERRED" -> "deferred"
    [] name = "NEEDS_HUMAN" -> "needs_human"

AttributeError == "AttributeError"

\* RunStatus.<name>: the member's value, or AttributeError when the enum has
\* no such member.
RunStatusAttr(name) ==
  IF StatusValue(name) \in RunStatus THEN StatusValue(name) ELSE AttributeError

\* Trigger enum.
Trigger == {"poll", "cli", "webhook"}

\* ------------------------------------------------------------ agent.py
\* What one subprocess run of a backend CLI produced: exit code, whether the
\* combined stdout+stderr contains an UNAVAILABLE_PATTERNS entry, and whether
\* the wall-clock timeout expired.
RawResults ==
  {[exit |-> 0, pattern |-> FALSE, timed_out |-> FALSE],
   [exit |-> 0, pattern |-> TRUE, timed_out |-> FALSE],
   [exit |-> 1, pattern |-> FALSE, timed_out |-> FALSE],
   [exit |-> 1, pattern |-> TRUE, timed_out |-> FALSE],
   [exit |-> 1, pattern |-> FALSE, timed_out |-> TRUE]}

\* A classifier that looks at the exit code before the patterns.
run_cmd_exit_first(raw) ==
  IF raw.timed_out THEN "unavailable"
  ELSE IF raw.exit # 0 THEN "fatal"
  ELSE IF raw.pattern THEN "unavailable"
  ELSE "ok"

\* _run_cmd: "ok" (returns stdout), "unavailable" (AgentUnavailableError) or
\* "fatal" (RuntimeError).
run_cmd(raw) ==
  IF raw.timed_out THEN "unavailable"
  ELSE IF raw.pattern THEN "unavailable"
  ELSE IF raw.exit # 0 THEN "fatal"
  ELSE "ok"

\* A dispatch that applies the fallback re-run to every backend.
run_backend_rerun_all(backend, raw1, raw2) ==
  IF run_cmd(raw1) = "ok" THEN <<run_cmd(raw1)>>
  ELSE <<run_cmd(raw1), run_cmd(raw2)>>

\* run_backend: the outcomes of the subprocess runs it made, in order; its own
\* outcome is the last one.  claude runs once.  codex runs `codex exec`, and on
\* any RuntimeError (AgentUnavailableError is a RuntimeError) runs plain
\* `codex` once more.
run_backend(backend, raw1, raw2) ==
  IF backend = "claude" THEN <<run_cmd(raw1)>>
  ELSE IF run_cmd(raw1) = "ok" THEN <<run_cmd(raw1)>>
  ELSE <<run_cmd(raw1), run_cmd(raw2)>>

Last(s) == s[Len(s)]

\* backend_order: the implementer order for a label set.
backend_order(labs) ==
  LET preferred ==
        IF model_label_claude \in labs THEN "claude"
        ELSE IF model_label_codex \in labs THEN "codex"
        ELSE IF model_label_gemini \in labs THEN "claude"
        ELSE ""
      default_order == <<"claude", "codex">>
  IN IF preferred = "" THEN default_order
     ELSE <<preferred>> \o SelectSeq(default_order, LAMBDA n : n # preferred)

\* Config.reviewer_backend_order, the default "gemini,claude,codex", as the
\* parts that split(",") yields.
reviewer_backend_order_default == <<"gemini", "claude", "codex">>

\* p.strip().lower() of one part of the configured string.  The parts the
\* model draws are lower-case names, a name in capitals with blanks around it,
\* and the blank part.
StripLower(part) ==
  CASE part = " Codex " -> "codex"
    [] part = " " -> ""
    [] OTHER -> part

\* reviewer_backend_order, the branch without a model label (lines 178-184):
\* the non-empty parts, stripped and lower-cased, those that name claude or
\* codex kept in their order, then claude and codex appended when missing.
configured_reviewer_order(parts) ==
  LET raw == SelectSeq([k \in 1..Len(parts) |-> StripLower(parts[k])],
                       LAMBDA b : b # "")
      order == SelectSeq(raw, LAMBDA b : b \in {"claude", "codex"})
      Has(o, b) == \E k \in 1..Len(o) : o[k] = b
      with_claude == IF Has(order, "claude") THEN order ELSE Append(order, "claude")
  IN IF Has(with_claude, "codex") THEN with_claude ELSE Append(with_claude, "codex")

\* reviewer_backend_order for a label set under a configured list: the
\* implementer order when a model label is present.
reviewer_backend_order_of(parts, labs) ==
  IF labs \cap {model_label_claude, model_label_codex, model_label_gemini} # {}
  THEN backend_order(labs)
  ELSE configured_reviewer_order(parts)

\* reviewer_backend_order with the default Config.reviewer_backend_order
\* "gemini,claude,codex": gemini is filtered out, claude and codex kept in order.
reviewer_backend_order(labs) ==
  reviewer_backend_order_of(reviewer_backend_order_default, labs)

\* UNAVAILABLE_PATTERNS.
UNAVAILABLE_PATTERNS ==
  {"rate limit", "quota", "usage limit", "credit", "insufficient", "429",
   "temporarily unavailable", "try again later", "overloaded", "max turns",
   "max-turns", "timeout", "timed out", "pass --to"}

\* The pieces of text a backend CLI prints in the model, and text.lower() of
\* each.  No pattern straddles two pieces.
OutputPieces == {"done", "rate limit", "Rate Limit", "429 Too Many", "TIMED OUT"}

LowerPiece(piece) ==
  CASE piece = "Rate Limit" -> "rate limit"
    [] piece = "429 Too Many" -> "429 too many"
    [] piece = "TIMED OUT" -> "timed out"
    [] OTHER -> piece

\* The patterns that are substrings of a lower-cased piece.
PatternsIn(low) ==
  CASE low = "rate limit" -> {"rate limit"}
    [] low = "429 too many" -> {"429"}
    [] low = "timed out" -> {"timed out"}
    [] OTHER -> {}

\* _is_unavailable_error: any pattern in text.lower().
is_unavailable_error(text) ==
  \E k \in 1..Len(text) : PatternsIn(LowerPiece(text[k])) \cap UNAVAILABLE_PATTERNS # {}

\* _run_cmd lines 84-104 on what subprocess.run gave: TimeoutExpired (no
\* return code is read), or a return code with stdout and stderr, searched for
\* the patterns as f"{output}\n{stderr}".
Classified(r) ==
  IF r.timed_out
  THEN [exit |-> 1, pattern |-> FALSE, timed_out |-> TRUE]
  ELSE [exit |-> r.returncode,
        pattern |-> is_unavailable_error(r.stdout \o r.stderr),
        timed_out |-> FALSE]

\* ---- parse_reviewer_verdict
\* A reviewer output is a sequence of lines, a line a sequence of pieces: the
\* keywords in mixed case (so that lower() and upper() both matter; "Approved"
\* holds "approve"), a neutral word and the blank.
MaxLineLen == 3
MaxLines == 2

Pieces == {"Verdict:", "Approved", "Changes", "note", " "}

\* The keyword that the lower-cased (or upper-cased) piece contains, if any.
Keyword(piece) ==
  CASE piece = "Verdict:" -> "verdict:"
    [] piece = "Approved" -> "approve"
    [] piece = "Changes" -> "changes"
    [] OTHER -> ""

Reverse(q) == [k \in 1..Len(q) |-> q[Len(q) + 1 - k]]

\* str.strip() of a text: the blanks and empty lines at both ends go.
LStripLine(line) ==
  LET RECURSIVE D(_)
      D(l) == IF l = <<>> THEN l ELSE IF Head(l) = " " THEN D(Tail(l)) ELSE l
  IN D(line)

LStrip(text) ==
  LET RECURSIVE D(_)
      D(t) == IF t = <<>> THEN t
              ELSE IF LStripLine(Head(t)) = <<>> THEN D(Tail(t))
              ELSE <<LStripLine(Head(t))>> \o Tail(t)
  IN D(text)

strip(text) ==
  LET Flip(t) == Reverse([k \in 1..Len(t) |-> Reverse(t[k])])
  IN Flip(LStrip(Flip(LStrip(text))))

\* A fallback that approves whenever "approve" occurs.
verdict_fallback_lenient(approve, changes) ==
  IF approve THEN "APPROVE" ELSE "CHANGES_REQUESTED"

\* lines 236-239: the fallback heuristic on ("approve" in low, "changes" in low).
verdict_fallback(approve, changes) ==
  IF approve /\ ~changes THEN "APPROVE" ELSE "CHANGES_REQUESTED"

\* parse_reviewer_verdict: (verdict, stripped text).  The first line that
\* starts with "verdict:" and whose value holds APPROVE or CHANGES decides,
\* APPROVE being looked for first; otherwise the fallback.
parse_reviewer_verdict(text) ==
  LET t == strip(text)
      InLow(w) == \E i \in 1..Len(t) : \E k \in 1..Len(t[i]) : Keyword(t[i][k]) = w
      InValue(l, w) == \E k \in 2..Len(l) : Keyword(l[k]) = w
      deciding == {i \in 1..Len(t) :
                     /\ t[i] # <<>>
                     /\ Keyword(t[i][1]) = "verdict:"
                     /\ (InValue(t[i], "approve") \/ InValue(t[i], "changes"))}
  IN IF deciding # {}
     THEN LET i == CHOOSE i \in deciding : \A j \in deciding : i <= j
          IN <<IF InValue(t[i], "approve") THEN "APPROVE" ELSE "CHANGES_REQUESTED", t>>
     ELSE <<verdict_fallback(InLow("approve"), InLow("changes")), t>>

\* ------------------------------------------------------------ db.py
\* An INSERT that takes the first place of the table, moving the rows there.
create_run_first(l, issue, trigger) ==
  <<[issue |-> issue, trigger |-> trigger, status |-> "pending",
     branch |-> FALSE, pr_url |-> "none", error |-> "none",
     agent_output |-> 0, agent_name |-> "none", tokens_used |-> "none"]>> \o l

\* create_run: INSERT with status 'pending'; the id is the row's position.
\* agent_output is held as the number of transcript parts it joins.
\* agent_name and tokens_used are the nullable columns of the migrations, NULL
\* ("none") until an update_run supplies them.
create_run(l, issue, trigger) ==
  Append(l, [issue |-> issue, trigger |-> trigger, status |-> "pending",
             branch |-> FALSE, pr_url |-> "none", error |-> "none",
             agent_output |-> 0, agent_name |-> "none", tokens_used |-> "none"])

\* is_issue_claimed: builds the tuple of claimed status values first
\* (RunStatus.NEEDS_HUMAN among them), then counts the matching rows.
is_issue_claimed(l, issue) ==
  IF \E n \in {"PENDING", "RUNNING", "SUCCESS", "NEEDS_HUMAN"} :
       RunStatusAttr(n) = AttributeError
  THEN "raise"
  ELSE IF \E k \in 1..Len(l) :
            /\ l[k].issue = issue
            /\ l[k].status \in {RunStatusAttr("PENDING"), RunStatusAttr("RUNNING"),
                                RunStatusAttr("SUCCESS"), RunStatusAttr("NEEDS_HUMAN")}
       THEN "true"
       ELSE "false"

\* ------------------------------------------------------------ orchestrator.py
\* should_process: the label set meets the allowed labels.
should_process(labs) ==
  labs \cap {issue_label, model_label_claude, model_label_codex, model_label_gemini} # {}

\* get_labeled_issues of one repository: its issues carrying issue_label.
SeqOfSet(S) ==
  LET RECURSIVE Build(_)
      Build(T) == IF T = {} THEN <<>>
                  ELSE LET x == CHOOSE y \in T : \A z \in T : y[2] <= z[2]
                       IN <<x>> \o Build(T \ {x})
  IN Build(S)

get_labeled_issues(labs, repo) ==
  SeqOfSet({i \in Issues : i[1] = repo /\ issue_label \in labs[i]})


\* An UPDATE that writes the status column alone.
update_run_status_only(l, id, patch) ==
  [l EXCEPT ![id] = [f \in DOMAIN l[id] |->
                       IF f = "status" /\ f \in DOMAIN patch THEN patch[f] ELSE l[id][f]]]

\* update_run: one UPDATE applying only the supplied fields (the patch's domain).
update_run(l, id, patch) ==
  [l EXCEPT ![id] = [f \in DOMAIN l[id] |->
                       IF f \in DOMAIN patch THEN patch[f] ELSE l[id][f]]]

\* ------------------------------------------------------------ workspace.py
\* The working tree of a clone as `git status --porcelain` and
\* `git diff --numstat` see it: clean, changed within Config.max_diff_files /
\* max_diff_loc, or changed beyond them.
TreeStates == {"clean", "within", "over"}

\* has_changes: bool(git status --porcelain).
has_changes(tree) == tree # "clean"

\* ensure_repo: the trees it can leave.  A fresh clone is clean; on an existing
\* clone checkout and reset --hard revert tracked changes, and the untracked
\* files an earlier run left stay.
ensure_repo == TreeStates

\* commit_and_push under the outcome git produces: <<result, tree after>>.
\* result is "false" (clean tree, nothing pushed), "pushed", or "raise".
\* add -A and commit leave a clean tree even when the push then fails.
commit_and_push(tree, git) ==
  IF git = "status_fails" THEN <<"raise", tree>>
  ELSE IF ~has_changes(tree) THEN <<"false", tree>>
  ELSE IF git = "commit_fails" THEN <<"raise", tree>>
  ELSE IF git = "push_fails" THEN <<"raise", "clean">>
  ELSE <<"pushed", "clean">>

GitOutcomes == {"ok", "status_fails", "commit_fails", "push_fails"}

\* ------------------------------------------------------------ github_client.py
\* mark_done / mark_needs_human: each trigger label is removed inside its own
\* try/except (a failed removal leaves the label), then `add` is added.
\* out = [get, rm_issue, rm_ready, add], each TRUE when that API call succeeds.
\* Result <<"ok" | "raise", labels after>>.
MarkOutcomes == [get : BOOLEAN, rm_issue : BOOLEAN, rm_ready : BOOLEAN, add : BOOLEAN]

\* A swap that gives up as soon as a label cannot be removed.
swap_labels_strict(labs, add, out) ==
  IF ~out.get \/ ~out.rm_issue \/ ~out.rm_ready THEN <<"raise", labs>>
  ELSE IF add = "" THEN <<"ok", labs \ {issue_label, ready_label}>>
  ELSE IF out.add THEN <<"ok", (labs \ {issue_label, ready_label}) \cup {add}>>
  ELSE <<"raise", labs \ {issue_label, ready_label}>>

swap_labels(labs, add, out) ==
  IF ~out.get THEN <<"raise", labs>>
  ELSE LET removed == (IF out.rm_issue THEN {issue_label} ELSE {})
                      \cup (IF out.rm_ready THEN {ready_label} ELSE {})
           left == labs \ removed
       IN IF add = "" THEN <<"ok", left>>
          ELSE IF out.add THEN <<"ok", left \cup {add}>>
          ELSE <<"raise", left>>

mark_done(labs, out) == swap_labels(labs, done_label, out)

mark_needs_human(labs, out) == swap_labels(labs, needs_human_label, out)


\* ------------------------------------------------------------------ state
VARIABLES
  ledger,   \* the runs table: a sequence of Run rows, id = position
  ever,     \* per Run, the set of statuses ever written to its row
  labels,   \* the labels each issue carries on the hosting provider
  tree,     \* per orchestrator instance, the working tree of the clone in use
  pc,       \* per orchestrator instance, where it is
  loc,      \* per orchestrator instance, the locals of the call in progress
  obs,      \* per orchestrator instance, what its process_issue call has done
  call,     \* a call of a function of agent.py: its name, argument and result
  now,      \* the database clock, datetime('now'), in seconds
  stamps    \* per Run, its created_at and updated_at columns

vars == <<ledger, ever, labels, tree, pc, loc, obs, call, now, stamps>>

\* What the orchestrator's operations leave alone: they call the functions of
\* agent.py on their way, and the timestamps of the rows are followed in DbSpec.
fnvars == <<call, now, stamps>>

NoCall == [fn |-> "none", arg |-> <<>>, out |-> <<>>, done |-> FALSE]

Obs0 ==
  [hist |-> <<>>,            \* the statuses written to the Run, in order
   last_backend |-> "none",  \* the backend of the run_backend call just made and
   last_runs |-> <<>>,       \* its subprocess outcomes, until the next ledger write
   last_timeout |-> FALSE,   \* a subprocess run of that call hit its wall-clock timeout
   p1 |-> "none",            \* pass 1 ended: "clean" tree or "changed"
   p1_unavail |-> FALSE,     \* pass 1 ended without changes, some backend unavailable
   commit_called |-> FALSE,  \* commit_and_push was invoked
   pushed |-> FALSE,         \* a commit_and_push pushed
   pr_calls |-> 0,           \* create_pr calls
   mark_done |-> FALSE,      \* mark_done was called
   mark_needs_human |-> FALSE,
   fail_comments |-> 0,      \* failure comments posted on the issue
   last_push |-> "none",     \* the commit last pushed: "unseen" until a reviewer
                             \* round has run on it, then "seen" until the next
                             \* feedback pass starts
   reports |-> 0]            \* run reports written: process_issue has no call of
                             \* generate_run_report / write_report_file

Loc0 ==
  [caller |-> "none", trigger |-> "cli", issue |-> <<"rA", 1>>, labs |-> {},
   run |-> 0, idx |-> 1, pass |-> 1,
   any_unavailable |-> FALSE, has_changes |-> FALSE, parts |-> 0,
   pr_url |-> "none", round |-> 1, verdict |-> "none", approved |-> FALSE,
   exc |-> "none", repo_idx |-> 1, queue |-> <<>>, processed |-> 0]

\* No call under way, no Run in the ledger.
Idle ==
  /\ ever = <<>>
  /\ labels = InitialLabels
  /\ tree = [p \in Procs |-> "clean"]
  /\ pc = [p \in Procs |-> "idle"]
  /\ loc = [p \in Procs |-> Loc0]
  /\ obs = [p \in Procs |-> Obs0]

Init ==
  /\ ledger = <<>>
  /\ Idle
  /\ call = NoCall
  /\ now = 0
  /\ stamps = <<>>

\* Runs that calls already under way are about to create.
Starting == Cardinality({p \in Procs : pc[p] = "create_run"})

HasCapacity == Len(ledger) + Starting < MaxRuns

\* The trigger run_single is called with: its default, Trigger.CLI.  The
\* trigger is only stored in the Run.
RunTriggers == {"cli"}

\* ------------------------------------------------------------ entry points
\* run_single(issue_number, repo_name, trigger): get_issue, should_process,
\* process_issue.  A raising get_issue leaves run_single with the exception.
RunSingle(p, i, t) ==
  /\ pc[p] = "idle"
  /\ HasCapacity
  /\ \E get_ok \in BOOLEAN :
       IF get_ok /\ should_process(labels[i])
       THEN /\ pc' = [pc EXCEPT ![p] = "create_run"]
            /\ loc' = [loc EXCEPT ![p] = [Loc0 EXCEPT !.caller = "single",
                                            !.trigger = t, !.issue = i,
                                            !.labs = labels[i]]]
       ELSE UNCHANGED <<pc, loc>>
  /\ UNCHANGED <<ledger, ever, labels, tree, obs>>
  /\ UNCHANGED fnvars

\* poll_once that goes on to process_issue for every listed issue.
PollDecision_always(l, processed, issue, labs) == "process"

\* The decision poll_once takes for the next listed issue, in the order the
\* loop body evaluates it: the max_issues_per_poll test (an attribute Config
\* does not declare, so the comparison is never made), is_issue_claimed,
\* should_process.
PollDecision(l, processed, issue, labs) ==
  IF "max_issues_per_poll" \notin ConfigFields THEN "raise"
  ELSE IF is_issue_claimed(l, issue) = "raise" THEN "raise"
  ELSE IF is_issue_claimed(l, issue) = "true" THEN "skip"
  ELSE IF ~should_process(labs) THEN "skip"
  ELSE "process"

\* poll_once starts: processed = 0, first repository.
PollStart(p) ==
  /\ pc[p] = "idle"
  /\ pc' = [pc EXCEPT ![p] = "poll_repo"]
  /\ loc' = [loc EXCEPT ![p] = [Loc0 EXCEPT !.caller = "poll", !.trigger = "poll"]]
  /\ UNCHANGED <<ledger, ever, labels, tree, obs>>
  /\ UNCHANGED fnvars

\* poll_once, outer loop: list the next repository's labeled issues (a raising
\* listing counts as no issues), or return after the last repository.
PollRepo(p) ==
  /\ pc[p] = "poll_repo"
  /\ LET L == loc[p] IN
     IF L.repo_idx > Len(target_repos)
     THEN /\ pc' = [pc EXCEPT ![p] = "idle"]
          /\ loc' = [loc EXCEPT ![p] = Loc0]
     ELSE \E list_ok \in BOOLEAN :
            /\ pc' = [pc EXCEPT ![p] = "poll_issue"]
            /\ loc' = [loc EXCEPT ![p].queue =
                         IF list_ok
                         THEN get_labeled_issues(labels, target_repos[L.repo_idx])
                         ELSE <<>>]
  /\ UNCHANGED <<ledger, ever, labels, tree, obs>>
  /\ UNCHANGED fnvars

\* poll_once, inner loop body for the next listed issue.  An exception leaves
\* poll_once; the caller (run_poller, run_poll_once) logs it.
PollIssue(p) ==
  /\ pc[p] = "poll_issue"
  /\ LET L == loc[p] IN
     IF L.queue = <<>>
     THEN /\ pc' = [pc EXCEPT ![p] = "poll_repo"]
          /\ loc' = [loc EXCEPT ![p].repo_idx = @ + 1]
     ELSE LET issue == Head(L.queue)
              d == PollDecision(ledger, L.processed, issue, labels[issue])
          IN CASE d = "raise" ->
                    /\ pc' = [pc EXCEPT ![p] = "idle"]
                    /\ loc' = [loc EXCEPT ![p] = Loc0]
               [] d = "skip" ->
                    /\ pc' = pc
                    /\ loc' = [loc EXCEPT ![p].queue = Tail(@)]
               [] d = "process" ->
                    /\ HasCapacity
                    /\ pc' = [pc EXCEPT ![p] = "create_run"]
                    /\ loc' = [loc EXCEPT ![p].issue = issue,
                                          ![p].labs = labels[issue]]
  /\ UNCHANGED <<ledger, ever, labels, tree, obs>>
  /\ UNCHANGED fnvars

\* ------------------------------------------------------------ process_issue
\* A ledger write of `patch` to the Run of p's call: the row, and the record of
\* the statuses written.
Write(p, patch) ==
  /\ ledger' = update_run(ledger, loc[p].run, patch)
  /\ ever' = IF "status" \in DOMAIN patch
             THEN [ever EXCEPT ![loc[p].run] = @ \cup {patch.status}]
             ELSE ever

Logged(o, patch) ==
  [o EXCEPT !.hist = IF "status" \in DOMAIN patch THEN Append(@, patch.status) ELSE @,
            !.last_backend = "none", !.last_runs = <<>>, !.last_timeout = FALSE]

\* A try block that begins with the workspace setup.
FirstInTry_setup == "setup"

\* process_issue lines 139-140: the first statement of the try block is the
\* update_run that writes RUNNING.
FirstInTry == "set_running"

\* process_issue line 133: create_run.
CreateRun(p) ==
  /\ pc[p] = "create_run"
  /\ ledger' = create_run(ledger, loc[p].issue, loc[p].trigger)
  /\ ever' = Append(ever, {"pending"})
  /\ obs' = [obs EXCEPT ![p] = [Obs0 EXCEPT !.hist = <<"pending">>]]
  /\ loc' = [loc EXCEPT ![p].run = Len(ledger) + 1]
  /\ pc' = [pc EXCEPT ![p] = FirstInTry]
  /\ UNCHANGED <<labels, tree>>
  /\ UNCHANGED fnvars

\* line 140: update_run(status=RUNNING, branch=branch).
SetRunning(p) ==
  /\ pc[p] = "set_running"
  /\ LET patch == [status |-> RunStatusAttr("RUNNING"), branch |-> TRUE] IN
     /\ Write(p, patch)
     /\ obs' = [obs EXCEPT ![p] = Logged(@, patch)]
  /\ pc' = [pc EXCEPT ![p] = "setup"]
  /\ UNCHANGED <<labels, tree, loc>>
  /\ UNCHANGED fnvars

\* lines 143-144: ensure_repo, create_branch; any failing git command raises.
SetupWorkspace(p) ==
  /\ pc[p] = "setup"
  /\ \E git_ok \in BOOLEAN, t2 \in ensure_repo :
       IF git_ok
       THEN /\ tree' = [tree EXCEPT ![p] = t2]
            /\ pc' = [pc EXCEPT ![p] = "implementer"]
            /\ loc' = [loc EXCEPT ![p].idx = 1, ![p].pass = 1,
                                  ![p].any_unavailable = FALSE]
       ELSE /\ tree' = tree
            /\ pc' = [pc EXCEPT ![p] = "except"]
            /\ loc' = [loc EXCEPT ![p].exc = "git failed"]
  /\ UNCHANGED <<ledger, ever, labels, obs>>
  /\ UNCHANGED fnvars

\* str() of the RuntimeError _run_cmd raises for a Fatal run: it names the backend.
ExitedError(backend) == IF backend = "claude" THEN "claude exited" ELSE "codex exited"

\* What one run_backend call adds to the call's record.
Invoked(o, backend, runs, timed) ==
  [o EXCEPT !.last_backend = backend, !.last_runs = runs, !.last_timeout = timed]

\* Whether a subprocess run of the run_backend call raised TimeoutExpired.
TimedOut(backend, raw1, raw2) ==
  raw1.timed_out \/ (Len(run_backend(backend, raw1, raw2)) = 2 /\ raw2.timed_out)

\* The second subprocess result matters only to a backend that runs twice.
SecondRaw(backend, raw1) ==
  IF Len(run_backend(backend, raw1, raw1)) = 2 THEN RawResults ELSE {raw1}

\* _run_implementer_until_changes, loop body for the next backend: run it, then
\* has_changes().  The backend works in the clone and leaves the tree as it
\* likes.
ImplementerStep(p) ==
  /\ pc[p] = "implementer"
  /\ loc[p].idx <= Len(backend_order(loc[p].labs))
  /\ LET L == loc[p]
         backend == backend_order(L.labs)[L.idx]
     IN \E raw1 \in RawResults, t2 \in TreeStates, git_ok \in BOOLEAN :
        \E raw2 \in SecondRaw(backend, raw1) :
          LET runs == run_backend(backend, raw1, raw2)
              res == Last(runs)
              o2 == Invoked(obs[p], backend, runs, TimedOut(backend, raw1, raw2))
              done == res = "ok" /\ git_ok /\ has_changes(t2)
          IN /\ tree' = [tree EXCEPT ![p] = t2]
             /\ obs' = [obs EXCEPT ![p] =
                          IF done /\ L.pass = 1 THEN [o2 EXCEPT !.p1 = "changed"] ELSE o2]
             /\ CASE res = "fatal" ->
                       /\ pc' = [pc EXCEPT ![p] = "except"]
                       /\ loc' = [loc EXCEPT ![p].exc = ExitedError(backend)]
                  [] res = "unavailable" ->
                       /\ pc' = pc
                       /\ loc' = [loc EXCEPT ![p].any_unavailable = TRUE,
                                             ![p].idx = @ + 1,
                                             ![p].parts = @ + 1]
                  [] res = "ok" /\ ~git_ok ->
                       /\ pc' = [pc EXCEPT ![p] = "except"]
                       /\ loc' = [loc EXCEPT ![p].exc = "git failed",
                                             ![p].parts = @ + 1]
                  [] done ->
                       /\ pc' = [pc EXCEPT ![p] = "save_output"]
                       /\ loc' = [loc EXCEPT ![p].has_changes = TRUE,
                                             ![p].parts = @ + 1]
                  [] OTHER ->
                       /\ pc' = pc
                       /\ loc' = [loc EXCEPT ![p].idx = @ + 1,
                                             ![p].parts = @ + 1]
  /\ UNCHANGED <<ledger, ever, labels>>
  /\ UNCHANGED fnvars

\* _run_implementer_until_changes line 103, after the last backend:
\* return has_changes(), any_unavailable.
ImplementerReturn(p) ==
  /\ pc[p] = "implementer"
  /\ loc[p].idx > Len(backend_order(loc[p].labs))
  /\ LET L == loc[p] IN
     \E git_ok \in BOOLEAN :
       IF git_ok
       THEN /\ pc' = [pc EXCEPT ![p] = "save_output"]
            /\ loc' = [loc EXCEPT ![p].has_changes = has_changes(tree[p])]
            /\ obs' = IF L.pass = 1
                      THEN [obs EXCEPT ![p].p1 = IF has_changes(tree[p])
                                                  THEN "changed" ELSE "clean",
                                       ![p].p1_unavail =
                                          ~has_changes(tree[p]) /\ L.any_unavailable]
                      ELSE obs
       ELSE /\ pc' = [pc EXCEPT ![p] = "except"]
            /\ loc' = [loc EXCEPT ![p].exc = "git failed"]
            /\ obs' = obs
  /\ UNCHANGED <<ledger, ever, labels, tree>>
  /\ UNCHANGED fnvars

\* lines 153 and 229: update_run(agent_output=...) after an implementer pass.
SaveOutput(p) ==
  /\ pc[p] = "save_output"
  /\ LET patch == [agent_output |-> loc[p].parts] IN
     /\ Write(p, patch)
     /\ obs' = [obs EXCEPT ![p] = Logged(@, patch)]
  /\ pc' = [pc EXCEPT ![p] = IF loc[p].pass = 1 THEN "pass1_branch" ELSE "fb_branch"]
  /\ UNCHANGED <<labels, tree, loc>>
  /\ UNCHANGED fnvars

\* Pass 1 going on to the pull request whatever the tree holds.
Pass1Next_always_pr(hc, au) == "create_pr"

\* lines 155-168: where pass 1 goes from (has_changes, any_unavailable).
Pass1Next(hc, au) ==
  IF ~hc THEN (IF au THEN "deferred" ELSE "failed") ELSE "commit1"

\* The locals the handler and the caller still read once the body of the try
\* block is left: which Run, which issue, the exception.
Leaving(L, e) ==
  [Loc0 EXCEPT !.caller = L.caller, !.trigger = L.trigger, !.issue = L.issue,
               !.labs = L.labs, !.run = L.run, !.exc = e,
               !.repo_idx = L.repo_idx, !.queue = L.queue,
               !.processed = L.processed]

\* An exception that leaves process_issue without passing through the handler.
Raise_unhandled(p, e) ==
  /\ pc' = [pc EXCEPT ![p] = "return"]
  /\ loc' = [loc EXCEPT ![p] = Leaving(loc[p], e)]

\* Raising e inside the try block: control goes to the exception handler.
Raise(p, e) ==
  /\ pc' = [pc EXCEPT ![p] = "except"]
  /\ loc' = [loc EXCEPT ![p] = Leaving(loc[p], e)]

\* A `return` of process_issue.
ToReturn(p) ==
  /\ pc' = [pc EXCEPT ![p] = "return"]
  /\ loc' = [loc EXCEPT ![p] = Leaving(loc[p], loc[p].exc)]

\* lines 155-166: the no-changes exits of pass 1.
Pass1Branch(p) ==
  /\ pc[p] = "pass1_branch"
  /\ LET L == loc[p]
         d == Pass1Next(L.has_changes, L.any_unavailable)
     IN CASE d = "deferred" /\ RunStatusAttr("DEFERRED") = AttributeError ->
               /\ Raise(p, "DEFERRED")
               /\ UNCHANGED <<ledger, ever, obs>>
          [] d = "deferred" /\ RunStatusAttr("DEFERRED") # AttributeError ->
               LET patch == [status |-> RunStatusAttr("DEFERRED"), error |-> "will retry"] IN
               /\ Write(p, patch)
               /\ obs' = [obs EXCEPT ![p] = Logged(@, patch)]
               /\ ToReturn(p)
          [] d = "failed" ->
               LET patch == [status |-> RunStatusAttr("FAILED"), error |-> "no file changes"] IN
               /\ Write(p, patch)
               /\ obs' = [obs EXCEPT ![p] = Logged(@, patch)]
               /\ pc' = [pc EXCEPT ![p] = "fail_comment"]
               /\ loc' = loc
          [] OTHER ->
               /\ pc' = [pc EXCEPT ![p] = d]
               /\ UNCHANGED <<ledger, ever, loc, obs>>
  /\ UNCHANGED <<labels, tree>>
  /\ UNCHANGED fnvars

\* lines 165 and 173: the failure comment after "Agent produced no file
\* changes"; a raising comment_on_issue goes to the exception handler.
FailComment(p) ==
  /\ pc[p] = "fail_comment"
  /\ \E ok \in BOOLEAN :
       IF ok
       THEN /\ ToReturn(p)
            /\ obs' = [obs EXCEPT ![p].fail_comments = @ + 1]
       ELSE /\ Raise(p, "scm failed")
            /\ obs' = obs
  /\ UNCHANGED <<ledger, ever, labels, tree>>
  /\ UNCHANGED fnvars

\* lines 169-174: commit_and_push of pass 1.
Commit1(p) ==
  /\ pc[p] = "commit1"
  /\ \E git \in GitOutcomes :
       LET r == commit_and_push(tree[p], git)
           o == [obs[p] EXCEPT !.commit_called = TRUE,
                               !.pushed = @ \/ (r[1] = "pushed"),
                               !.last_push = IF r[1] = "pushed" THEN "unseen" ELSE @]
       IN /\ tree' = [tree EXCEPT ![p] = r[2]]
          /\ CASE r[1] = "raise" ->
                    /\ Raise(p, "git failed")
                    /\ obs' = [obs EXCEPT ![p] = o]
                    /\ UNCHANGED <<ledger, ever>>
               [] r[1] = "false" ->
                    LET patch == [status |-> RunStatusAttr("FAILED"),
                                  error |-> "no file changes"] IN
                    /\ Write(p, patch)
                    /\ obs' = [obs EXCEPT ![p] = Logged(o, patch)]
                    /\ pc' = [pc EXCEPT ![p] = "fail_comment"]
                    /\ loc' = loc
               [] r[1] = "pushed" ->
                    /\ pc' = [pc EXCEPT ![p] = "create_pr"]
                    /\ obs' = [obs EXCEPT ![p] = o]
                    /\ UNCHANGED <<ledger, ever, loc>>
  /\ UNCHANGED labels
  /\ UNCHANGED fnvars

\* lines 176-181: create_pr.
CreatePr(p) ==
  /\ pc[p] = "create_pr"
  /\ \E ok \in BOOLEAN :
       /\ obs' = [obs EXCEPT ![p].pr_calls = @ + 1]
       /\ IF ok
          THEN /\ pc' = [pc EXCEPT ![p] = "pr_comment"]
               /\ loc' = [loc EXCEPT ![p].pr_url = "pr"]
          ELSE Raise(p, "scm failed")
  /\ UNCHANGED <<ledger, ever, labels, tree>>
  /\ UNCHANGED fnvars

\* lines 183-194: the PR comment, then the review loop starts at round 1.
PrComment(p) ==
  /\ pc[p] = "pr_comment"
  /\ \E ok \in BOOLEAN :
       IF ok
       THEN /\ pc' = [pc EXCEPT ![p] = "reviewer"]
            /\ loc' = [loc EXCEPT ![p].round = 1, ![p].idx = 1,
                                  ![p].any_unavailable = FALSE,
                                  ![p].has_changes = FALSE]
       ELSE Raise(p, "scm failed")
  /\ UNCHANGED <<ledger, ever, labels, tree, obs>>
  /\ UNCHANGED fnvars


\* What can go wrong before the reviewer's first backend runs in a round:
\* run_test_cmd (its subprocess timeout is not caught), diffstat and diff.
RoundPrelude == {"ok", "test timed out", "git failed"}

Verdicts == {"APPROVE", "CHANGES_REQUESTED"}

\* A reviewer that approves when no backend could be reached.
synthesized_review_approve == <<"APPROVE", "Reviewer backend unavailable">>

\* _run_reviewer line 129: the verdict and the text returned when every
\* reviewer backend was unavailable; the text carries the SUMMARY line
\* "Reviewer backend unavailable" and the last error as its note.
synthesized_review == <<"CHANGES_REQUESTED", "Reviewer backend unavailable">>

\* lines 195-205 with _run_reviewer: the round's test run and diff, then the
\* reviewer loop body for the next backend.  The first backend that returns
\* gives the verdict; when the last one is unavailable too the verdict is the
\* synthesized CHANGES_REQUESTED.  The tree is read again only after the next
\* implementer pass has rewritten it, so the reviewer's own edits are not kept.
ReviewerStep(p) ==
  /\ pc[p] = "reviewer"
  /\ LET L == loc[p]
         order == reviewer_backend_order(L.labs)
         backend == order[L.idx]
     IN \E pre \in (IF L.idx = 1 THEN RoundPrelude ELSE {"ok"}) :
          IF pre # "ok"
          THEN /\ Raise(p, pre)
               /\ obs' = obs
          ELSE \E raw1 \in RawResults, v \in Verdicts :
               \E raw2 \in SecondRaw(backend, raw1) :
                 LET runs == run_backend(backend, raw1, raw2)
                     res == Last(runs)
                 IN /\ obs' = [obs EXCEPT ![p] = Invoked(@, backend, runs,
                                                       TimedOut(backend, raw1, raw2))]
                    /\ CASE res = "fatal" -> Raise(p, ExitedError(backend))
                         [] res = "ok" ->
                              /\ pc' = [pc EXCEPT ![p] = "save_review"]
                              /\ loc' = [loc EXCEPT ![p].verdict = v,
                                                    ![p].parts = @ + 1]
                         [] res = "unavailable" /\ L.idx < Len(order) ->
                              /\ pc' = pc
                              /\ loc' = [loc EXCEPT ![p].idx = @ + 1,
                                                    ![p].parts = @ + 1]
                         [] OTHER ->
                              /\ pc' = [pc EXCEPT ![p] = "save_review"]
                              /\ loc' = [loc EXCEPT ![p].verdict = synthesized_review[1],
                                                    ![p].parts = @ + 1]
  /\ UNCHANGED <<ledger, ever, labels, tree>>
  /\ UNCHANGED fnvars

\* line 206: update_run(agent_output=...) after the reviewer.
SaveReview(p) ==
  /\ pc[p] = "save_review"
  /\ LET patch == [agent_output |-> loc[p].parts] IN
     /\ Write(p, patch)
     /\ obs' = [obs EXCEPT ![p] =
                  [Logged(@, patch) EXCEPT !.last_push =
                     IF @ = "unseen" THEN "seen" ELSE @]]
  /\ pc' = [pc EXCEPT ![p] = "round_comment"]
  /\ UNCHANGED <<labels, tree, loc>>
  /\ UNCHANGED fnvars

\* lines 208-228: the round's comment; APPROVE breaks out of the loop, any
\* other verdict starts the implementer pass that addresses the feedback.
RoundComment(p) ==
  /\ pc[p] = "round_comment"
  /\ \E ok \in BOOLEAN :
       IF ~ok THEN Raise(p, "scm failed") /\ obs' = obs
       ELSE IF loc[p].verdict = "APPROVE"
       THEN /\ pc' = [pc EXCEPT ![p] = "finish"]
            /\ loc' = [loc EXCEPT ![p].approved = TRUE]
            /\ obs' = obs
       ELSE /\ pc' = [pc EXCEPT ![p] = "implementer"]
            /\ loc' = [loc EXCEPT ![p].idx = 1, ![p].pass = loc[p].round + 1,
                                  ![p].any_unavailable = FALSE]
            /\ obs' = [obs EXCEPT ![p].last_push = "none"]
  /\ UNCHANGED <<ledger, ever, labels, tree>>
  /\ UNCHANGED fnvars

\* A review loop that opens the pull request again on every further round.
NextRound_recreate_pr(p) ==
  /\ pc' = [pc EXCEPT ![p] = "create_pr"]
  /\ loc' = [loc EXCEPT ![p].round = @ + 1, ![p].idx = 1]

\* The review loop's `for`: the next round, or the code after the loop.
NextRound(p) ==
  IF loc[p].round < (IF review_rounds > 1 THEN review_rounds ELSE 1)
  THEN /\ pc' = [pc EXCEPT ![p] = "reviewer"]
       /\ loc' = [loc EXCEPT ![p].round = @ + 1, ![p].idx = 1,
                             ![p].any_unavailable = FALSE,
                             ![p].has_changes = FALSE, ![p].verdict = "none"]
  ELSE /\ pc' = [pc EXCEPT ![p] = "finish"]
       /\ loc' = [loc EXCEPT ![p].idx = 1, ![p].any_unavailable = FALSE,
                             ![p].has_changes = FALSE]

\* lines 231-248: after the feedback pass.  No changes with an unavailable
\* backend is the DEFERRED exit; otherwise commit_and_push, a comment when
\* something was pushed, and the loop goes on.
FeedbackBranch(p) ==
  /\ pc[p] = "fb_branch"
  /\ LET L == loc[p] IN
     IF ~L.has_changes /\ L.any_unavailable
     THEN /\ tree' = tree
          /\ IF RunStatusAttr("DEFERRED") = AttributeError
             THEN /\ Raise(p, "DEFERRED")
                  /\ UNCHANGED <<ledger, ever, obs>>
             ELSE LET patch == [status |-> RunStatusAttr("DEFERRED"),
                                error |-> "will retry"] IN
                  /\ Write(p, patch)
                  /\ obs' = [obs EXCEPT ![p] = Logged(@, patch)]
                  /\ ToReturn(p)
     ELSE \E git \in GitOutcomes, comment_ok \in BOOLEAN :
            LET r == commit_and_push(tree[p], git) IN
            /\ tree' = [tree EXCEPT ![p] = r[2]]
            /\ obs' = [obs EXCEPT ![p].commit_called = TRUE,
                                  ![p].pushed = @ \/ (r[1] = "pushed"),
                                  ![p].last_push =
                                     IF r[1] = "pushed" THEN "unseen" ELSE @]
            /\ UNCHANGED <<ledger, ever>>
            /\ CASE r[1] = "raise" -> Raise(p, "git failed")
                 [] r[1] = "pushed" /\ ~comment_ok -> Raise(p, "scm failed")
                 [] OTHER -> NextRound(p)
  /\ UNCHANGED labels
  /\ UNCHANGED fnvars

\* lines 250-251 and 257: the status written after the loop.
Finish(p) ==
  /\ pc[p] = "finish"
  /\ LET L == loc[p]
         name == IF L.approved THEN "SUCCESS" ELSE "NEEDS_HUMAN"
     IN IF RunStatusAttr(name) = AttributeError
        THEN /\ Raise(p, name)
             /\ UNCHANGED <<ledger, ever, obs>>
        ELSE LET patch == IF L.approved
                          THEN [status |-> RunStatusAttr(name), pr_url |-> L.pr_url]
                          ELSE [status |-> RunStatusAttr(name), pr_url |-> L.pr_url,
                                error |-> "Review not approved"]
             IN /\ Write(p, patch)
                /\ obs' = [obs EXCEPT ![p] = Logged(@, patch)]
                /\ pc' = [pc EXCEPT ![p] = "mark"]
                /\ loc' = loc
  /\ UNCHANGED <<labels, tree>>
  /\ UNCHANGED fnvars

\* lines 252 and 258: mark_done after SUCCESS, mark_needs_human otherwise.
MarkLabels(p) ==
  /\ pc[p] = "mark"
  /\ \E out \in MarkOutcomes :
       LET i == loc[p].issue
           r == IF loc[p].approved THEN mark_done(labels[i], out)
                ELSE mark_needs_human(labels[i], out)
       IN /\ labels' = [labels EXCEPT ![i] = r[2]]
          /\ obs' = [obs EXCEPT ![p].mark_done = @ \/ loc[p].approved,
                                ![p].mark_needs_human = @ \/ ~loc[p].approved,
                                ![p].last_push = "none"]
          /\ IF r[1] = "ok"
             THEN /\ pc' = [pc EXCEPT ![p] = "final_comment"]
                  /\ loc' = loc
             ELSE Raise(p, "scm failed")
  /\ UNCHANGED <<ledger, ever, tree>>
  /\ UNCHANGED fnvars

\* lines 253 and 259-265: the closing comment.
FinalComment(p) ==
  /\ pc[p] = "final_comment"
  /\ \E ok \in BOOLEAN : IF ok THEN ToReturn(p) ELSE Raise(p, "scm failed")
  /\ UNCHANGED <<ledger, ever, labels, tree, obs>>
  /\ UNCHANGED fnvars

\* lines 267-270: except Exception: update_run(status=FAILED, error=str(e)).
Except(p) ==
  /\ pc[p] = "except"
  /\ LET patch == [status |-> RunStatusAttr("FAILED"), error |-> loc[p].exc] IN
     /\ Write(p, patch)
     /\ obs' = [obs EXCEPT ![p] = [Logged(@, patch) EXCEPT !.last_push = "none"]]
  /\ pc' = [pc EXCEPT ![p] = "except_comment"]
  /\ UNCHANGED <<labels, tree, loc>>
  /\ UNCHANGED fnvars

\* lines 271-274: the failure comment, its own failure swallowed.
ExceptComment(p) ==
  /\ pc[p] = "except_comment"
  /\ \E ok \in BOOLEAN :
       obs' = [obs EXCEPT ![p].fail_comments = IF ok THEN @ + 1 ELSE @]
  /\ ToReturn(p)
  /\ UNCHANGED <<ledger, ever, labels, tree>>
  /\ UNCHANGED fnvars

\* process_issue has returned: run_single returns too, poll_once counts the
\* issue (line 295) and goes on with the next one.
Return(p) ==
  /\ pc[p] = "return"
  /\ IF loc[p].caller = "poll"
     THEN /\ pc' = [pc EXCEPT ![p] = "poll_issue"]
          /\ loc' = [loc EXCEPT ![p] = [Loc0 EXCEPT !.caller = "poll",
                                          !.trigger = "poll",
                                          !.repo_idx = loc[p].repo_idx,
                                          !.queue = Tail(loc[p].queue),
                                          !.processed = loc[p].processed + 1]]
     ELSE /\ pc' = [pc EXCEPT ![p] = "idle"]
          /\ loc' = [loc EXCEPT ![p] = Loc0]
  /\ obs' = [obs EXCEPT ![p] = Obs0]
  /\ tree' = [tree EXCEPT ![p] = "clean"]
  /\ UNCHANGED <<ledger, ever, labels>>
  /\ UNCHANGED fnvars

Next ==
  \E p \in Procs :
    \/ \E i \in Issues, t \in RunTriggers : RunSingle(p, i, t)
    \/ PollStart(p)
    \/ PollRepo(p)
    \/ PollIssue(p)
    \/ CreateRun(p)
    \/ SetRunning(p)
    \/ SetupWorkspace(p)
    \/ ImplementerStep(p)
    \/ ImplementerReturn(p)
    \/ SaveOutput(p)
    \/ Pass1Branch(p)
    \/ FailComment(p)
    \/ Commit1(p)
    \/ CreatePr(p)
    \/ PrComment(p)
    \/ ReviewerStep(p)
    \/ SaveReview(p)
    \/ RoundComment(p)
    \/ FeedbackBranch(p)
    \/ Finish(p)
    \/ MarkLabels(p)
    \/ FinalComment(p)
    \/ Except(p)
    \/ ExceptComment(p)
    \/ Return(p)

Spec == Init /\ [][Next]_vars


\* One Run per behaviour, for the properties of a single process_issue call.
MaxLiveRuns == 1

LiveNext ==
  /\ Next
  /\ Len(ledger') + Cardinality({p \in Procs : pc'[p] = "create_run"}) <= MaxLiveRuns

\* A call under way keeps executing: every external call it waits on returns
\* or raises (subprocess runs carry a timeout).
LiveSpec == Init /\ [][LiveNext]_vars /\ WF_vars(LiveNext)

\* ------------------------------------------------- the functions of agent.py
\* The functions of agent.py taken alone: a call is drawn with its argument,
\* then the function is applied to it.
MaxOutputLen == 2
MaxParts == 3

SeqsUpTo(S, n) == UNION {[1..k -> S] : k \in 0..n}

\* What subprocess.run can give _run_cmd.
ProcResults ==
  {[timed_out |-> TRUE]}
    \cup {[timed_out |-> FALSE, returncode |-> c, stdout |-> o, stderr |-> e] :
            c \in {0, 1},
            o \in SeqsUpTo(OutputPieces, MaxOutputLen),
            e \in SeqsUpTo(OutputPieces, MaxOutputLen)}

\* Reviewer outputs.
Texts == SeqsUpTo(SeqsUpTo(Pieces, MaxLineLen), MaxLines)

\* Lower-cased label sets of an issue.
LabelSets ==
  SUBSET {issue_label, ready_label, model_label_claude, model_label_codex,
          model_label_gemini}

\* Values of Config.reviewer_backend_order, split at the commas.
ConfiguredLists == SeqsUpTo({"claude", "codex", "gemini", " Codex ", " "}, MaxParts)

Called(fn, arg) == [fn |-> fn, arg |-> arg, out |-> <<>>, done |-> FALSE]

Calls ==
  {Called("run_cmd", r) : r \in ProcResults}
    \cup {Called("parse_reviewer_verdict", t) : t \in Texts}
    \cup {Called("backend_order", labs) : labs \in LabelSets}
    \cup {Called("reviewer_backend_order", <<parts, labs>>) :
            parts \in ConfiguredLists, labs \in LabelSets}

FnInit ==
  /\ ledger = <<>>
  /\ Idle
  /\ call \in Calls
  /\ now = 0
  /\ stamps = <<>>

Returned(out) == call' = [call EXCEPT !.out = out, !.done = TRUE]

RunCmd ==
  /\ call.fn = "run_cmd" /\ ~call.done
  /\ Returned(<<run_cmd(Classified(call.arg))>>)
  /\ UNCHANGED <<ledger, ever, labels, tree, pc, loc, obs, now, stamps>>

ParseReviewerVerdict ==
  /\ call.fn = "parse_reviewer_verdict" /\ ~call.done
  /\ Returned(parse_reviewer_verdict(call.arg))
  /\ UNCHANGED <<ledger, ever, labels, tree, pc, loc, obs, now, stamps>>

BackendOrder ==
  /\ call.fn = "backend_order" /\ ~call.done
  /\ Returned(backend_order(call.arg))
  /\ UNCHANGED <<ledger, ever, labels, tree, pc, loc, obs, now, stamps>>

ReviewerBackendOrder ==
  /\ call.fn = "reviewer_backend_order" /\ ~call.done
  /\ Returned(reviewer_backend_order_of(call.arg[1], call.arg[2]))
  /\ UNCHANGED <<ledger, ever, labels, tree, pc, loc, obs, now, stamps>>

FnNext ==
  \/ RunCmd
  \/ ParseReviewerVerdict
  \/ BackendOrder
  \/ ReviewerBackendOrder

FnSpec == FnInit /\ [][FnNext]_vars

\* ------------------------------------------------------------ the database
\* The Database class taken alone: create_run and update_run called in any
\* order with any arguments while the clock of datetime('now') advances.
MaxDbRuns == 2
MaxNow == 2

\* created_at and updated_at of an inserted row: both DEFAULT (datetime('now')).
inserted(st, n) == Append(st, [created_at |-> n, updated_at |-> n])

\* update_run lines 112-115: with no field supplied the method returns before
\* any UPDATE; otherwise updated_at = datetime('now') is one of the updates.
touched(st, id, patch, n) ==
  IF DOMAIN patch = {} THEN st ELSE [st EXCEPT ![id].updated_at = n]

\* Keyword arguments of update_run: any of status and pr_url, each with a value.
Patches ==
  {<<>>}
    \cup {[status |-> v] : v \in {"running", "success"}}
    \cup {[pr_url |-> "pr"]}
    \cup {[status |-> v, pr_url |-> "pr"] : v \in {"running", "success"}}

DbInit ==
  /\ ledger = <<>>
  /\ Idle
  /\ call = NoCall
  /\ now = 0
  /\ stamps = <<>>

DbCreateRun ==
  \E i \in Issues, t \in RunTriggers :
    /\ Len(ledger) < MaxDbRuns
    /\ ledger' = create_run(ledger, i, t)
    /\ stamps' = inserted(stamps, now)
    /\ call' = [fn |-> "create_run", arg |-> <<i, t>>,
                out |-> <<Len(create_run(ledger, i, t))>>, done |-> TRUE]
    /\ UNCHANGED <<ever, labels, tree, pc, loc, obs, now>>

DbUpdateRun ==
  \E id \in 1..Len(ledger), patch \in Patches :
    /\ ledger' = update_run(ledger, id, patch)
    /\ stamps' = touched(stamps, id, patch, now)
    /\ call' = [fn |-> "update_run", arg |-> <<id, patch>>, out |-> <<>>, done |-> TRUE]
    /\ UNCHANGED <<ever, labels, tree, pc, loc, obs, now>>

\* A second passes.
Tick ==
  /\ now < MaxNow
  /\ now' = now + 1
  /\ UNCHANGED <<ledger, ever, labels, tree, pc, loc, obs, call, stamps>>

DbNext ==
  \/ DbCreateRun
  \/ DbUpdateRun
  \/ Tick

DbSpec == DbInit /\ [][DbNext]_vars

\* ------------------------------------------------------------ webhook.py
\* config.webhook_secret: empty (not configured) or a secret.
Secrets == {"", "s3cret"}

\* The keys a sender may sign with.
SigningKeys == {"s3cret", "wrong"}

\* hmac.new(key, body, sha256).hexdigest() after its prefix: the digest is
\* told apart by the key and the body it was computed from.
Digest(prefix, key, body) == <<prefix, key, body>>

\* Request bodies: bytes that do not parse as JSON, or an issue-event payload.
Payloads ==
  {[json |-> TRUE, action |-> a, label |-> l, repo |-> r, issue |-> 1] :
     a \in {"labeled", "closed"}, l \in {issue_label, "bug"}, r \in {"rA", "rX"}}

NotJson == [json |-> FALSE, action |-> "", label |-> "", repo |-> "", issue |-> 1]

Bodies == Payloads \cup {NotJson}

\* Values of the X-Hub-Signature-256 header as the server decodes it
\* (latin-1): absent, a string with a non-ASCII character, or a prefixed
\* digest of some body under some key.
NoSignature == [ascii |-> TRUE, text |-> <<>>]

Signatures(body) ==
  {NoSignature, [ascii |-> FALSE, text |-> <<"sha256=">>]}
    \cup {[ascii |-> TRUE, text |-> Digest(pre, k, b)] :
            pre \in {"sha256=", "sha1="}, k \in SigningKeys, b \in {body, NotJson}}

Requests ==
  {[content_length |-> c, signature |-> s, event |-> e, body |-> b] :
     c \in {"length", "abc"}, e \in {"issues", "push"}, b \in Bodies,
     s \in UNION {Signatures(b2) : b2 \in Bodies}}

\* hmac.compare_digest of two str: only ASCII strings are compared.
compare_digest(a, expected) ==
  IF ~a.ascii THEN "TypeError" ELSE IF a.text = expected THEN "true" ELSE "false"

\* _verify_signature, lines 66-77.
verify_signature(secret, signature, body) ==
  IF secret = "" THEN "true"
  ELSE IF signature.text = <<>> THEN "false"
  ELSE compare_digest(signature, Digest("sha256=", secret, body))

\* The labels the rest of the code accepts as triggers (should_process).
allowed_labels ==
  {issue_label, model_label_claude, model_label_codex, model_label_gemini}

\* do_POST: what the handler does for one request, in order: the responses it
\* sends, the call of run_single, or the exception it leaves with (the server
\* then closes the connection without a response).  Line 47 reads
\* config.issue_labels, an attribute Config does not declare.
do_POST(secret, req) ==
  IF req.content_length = "abc" THEN <<"ValueError">>
  ELSE IF verify_signature(secret, req.signature, req.body) = "TypeError"
  THEN <<"TypeError">>
  ELSE IF verify_signature(secret, req.signature, req.body) = "false"
  THEN <<"403">>
  ELSE IF req.event # "issues" THEN <<"200 ignored">>
  ELSE IF ~req.body.json THEN <<"400">>
  ELSE IF req.body.action # "labeled" THEN <<"200 ignored">>
  ELSE IF "issue_labels" \notin ConfigFields THEN <<"AttributeError">>
  ELSE IF req.body.label \notin allowed_labels THEN <<"200 ignored">>
  ELSE IF \A k \in 1..Len(target_repos) : target_repos[k] # req.body.repo
  THEN <<"200 ignored">>
  ELSE <<"200 accepted", "run_single">>

\* run_webhook: one orchestrator, one frozen configuration, then the server.
WebInit ==
  /\ ledger = <<>>
  /\ Idle
  /\ \E secret \in Secrets :
       call = [fn |-> "run_webhook", arg |-> <<secret>>, out |-> <<>>, done |-> FALSE]
  /\ now = 0
  /\ stamps = <<>>

\* The server handles one POST.  When do_POST gets as far as run_single, the
\* orchestrator starts on the issue with trigger webhook.
DoPost(p) ==
  /\ pc[p] = "idle"
  /\ \E req \in Requests :
       LET secret == call.arg[1]
           trace == do_POST(secret, req)
           i == <<req.body.repo, req.body.issue>>
       IN /\ call' = [fn |-> "do_POST", arg |-> <<secret, req>>,
                      out |-> trace, done |-> TRUE]
          /\ IF Last(trace) = "run_single" /\ should_process(labels[i])
             THEN /\ pc' = [pc EXCEPT ![p] = "create_run"]
                  /\ loc' = [loc EXCEPT ![p] = [Loc0 EXCEPT !.caller = "single",
                                                  !.trigger = "webhook", !.issue = i,
                                                  !.labs = labels[i]]]
             ELSE UNCHANGED <<pc, loc>>
  /\ UNCHANGED <<ledger, ever, labels, tree, obs, now, stamps>>

WebNext == \E p \in Procs : DoPost(p)

WebSpec == WebInit /\ [][WebNext]_vars

\* ------------------------------------------------------------ poller.py
\* Config.poll_interval, in seconds.
poll_interval == 60

\* run_poller line 41: time.sleep(config.poll_interval).  The statement does
\* not read the orchestrator's claude_unavailable_recently property.
sleep_seconds(unavailable_recently) == poll_interval

\* The label sets users give the issues between cycles.
UserLabelSets ==
  {{}, {issue_label}, {model_label_codex}, {issue_label, model_label_codex}}

\* run_poller lines 18-26: a new Orchestrator, whose
\* _claude_unavailable_recently is False (call.arg), at the top of the loop.
\* call.done: poll_once was called in this cycle; call.out: the last sleep.
PollerInit ==
  /\ ledger = <<>>
  /\ Idle
  /\ call = [fn |-> "run_poller", arg |-> <<FALSE>>, out |-> <<>>, done |-> FALSE]
  /\ now = 0
  /\ stamps = <<>>

\* line 30: the cycle calls poll_once.
PollerPoll(p) ==
  /\ pc[p] = "idle"
  /\ ~call.done
  /\ call' = [call EXCEPT !.done = TRUE]
  /\ pc' = [pc EXCEPT ![p] = "poll_repo"]
  /\ loc' = [loc EXCEPT ![p] = [Loc0 EXCEPT !.caller = "poll", !.trigger = "poll"]]
  /\ UNCHANGED <<ledger, ever, labels, tree, obs, now, stamps>>

\* lines 31-41: poll_once has returned, or raised and the exception was
\* logged; either way the cycle ends with the sleep.
PollerSleep(p) ==
  /\ pc[p] = "idle"
  /\ call.done
  /\ call' = [call EXCEPT !.done = FALSE, !.out = <<sleep_seconds(call.arg[1])>>]
  /\ UNCHANGED <<ledger, ever, labels, tree, pc, loc, obs, now, stamps>>

\* A user edits the labels of an issue.
Relabel(i) ==
  /\ \E labs \in UserLabelSets : labels' = [labels EXCEPT ![i] = labs]
  /\ UNCHANGED <<ledger, ever, tree, pc, loc, obs>>
  /\ UNCHANGED fnvars

PollerNext ==
  \/ \E p \in Procs :
       \/ PollerPoll(p)
       \/ PollRepo(p)
       \/ PollIssue(p)
       \/ PollerSleep(p)
  \/ \E i \in Issues : Relabel(i)

PollerSpec == PollerInit /\ [][PollerNext]_vars

\* ------------------------------------------------------------------ claims
\* The Runs of an issue.
RunsOf(i) == {k \in 1..Len(ledger) : ledger[k].issue = i}

\* The status values the claims call terminal, and the claim set.
TerminalStatus == {"success", "failed", "timeout", "blocked", "deferred", "needs_human"}

ClaimSet == {"pending", "running", "success", "needs_human"}

\* C1: once a Run of an issue has reached success or needs_human, no step of a
\* poll_once cycle creates a new Run for that issue.
C1_NoPollAfterDone ==
  [][\A p \in Procs :
       (loc[p].caller = "poll" /\ Len(ledger') > Len(ledger))
         => ~\E k \in RunsOf(ledger'[Len(ledger')].issue) :
               ever[k] \cap {"success", "needs_human"} # {}]_vars

\* A poll_once cycle has listed an issue one of whose Runs reached success.
C1_Witness ==
  \E p \in Procs :
    /\ pc[p] = "poll_issue"
    /\ loc[p].queue # <<>>
    /\ \E k \in RunsOf(Head(loc[p].queue)) : "success" \in ever[k]

\* C2: in every reachable state, every issue has at most one Run whose status
\* is in the claim set {pending, running, success, needs_human}.
C2_AtMostOneClaim ==
  \A i \in Issues :
    Cardinality({k \in RunsOf(i) : ledger[k].status \in ClaimSet}) <= 1

\* C3: no ledger write moves the status of a Run from a terminal value to
\* another value.
C3_TerminalIsFinal ==
  [][\A k \in 1..Len(ledger) :
       ledger[k].status \in TerminalStatus
         => ledger'[k].status = ledger[k].status]_vars

\* C4: when a poll_once cycle comes to a listed, eligible issue all of whose
\* Runs ended deferred, failed, timeout or blocked, is_issue_claimed returns
\* false and the cycle goes on to process_issue for it.
C4_RetryAfterFailure ==
  \A p \in Procs :
    (/\ pc[p] = "poll_issue"
     /\ loc[p].queue # <<>>
     /\ RunsOf(Head(loc[p].queue)) # {}
     /\ \A k \in RunsOf(Head(loc[p].queue)) :
          ledger[k].status \in {"deferred", "failed", "timeout", "blocked"}
     /\ should_process(labels[Head(loc[p].queue)]))
    => /\ is_issue_claimed(ledger, Head(loc[p].queue)) = "false"
       /\ PollDecision(ledger, loc[p].processed, Head(loc[p].queue),
                       labels[Head(loc[p].queue)]) = "process"

\* What the Run of a returning process_issue call looks like: it was written
\* pending, then running, and its status is the last one written, a terminal
\* one.
ReturnedRunOk(p) ==
  LET h == obs[p].hist
      st == ledger[loc[p].run].status
  IN /\ Len(h) >= 3
     /\ h[1] = "pending"
     /\ h[2] = "running"
     /\ \A j \in 3..Len(h) : h[j] \in TerminalStatus
     /\ st = Last(h)
     /\ st \in TerminalStatus
     /\ st \notin {"pending", "running"}

\* C5: every process_issue call returns, and at its return the Run it created
\* has gone through pending and running and is in a terminal status.
C5_ReturnsTerminal ==
  /\ \A p \in Procs : (pc[p] = "create_run") ~> (pc[p] = "return")
  /\ [](\A p \in Procs : pc[p] = "return" => ReturnedRunOk(p))

\* A call returns after the exception handler has written failed.
C5_Witness ==
  \E p \in Procs :
    /\ pc[p] = "return"
    /\ loc[p].exc # "none"
    /\ ledger[loc[p].run].status = "failed"

\* C6: if implementer pass 1 left no working-tree changes, the Run pushes
\* nothing, never calls create_pr, and calls neither mark_done nor
\* mark_needs_human.
C6_NoOpSafety ==
  \A p \in Procs :
    obs[p].p1 = "clean"
      => /\ ~obs[p].pushed
         /\ obs[p].pr_calls = 0
         /\ ~obs[p].mark_done
         /\ ~obs[p].mark_needs_human

\* A call returns whose pass 1 left the tree clean.
C6_Witness ==
  \E p \in Procs : pc[p] = "return" /\ obs[p].p1 = "clean"


\* C7: when pass 1 left changes beyond the diff limits, commit_and_push is not
\* invoked for the Run.
C7_DiffBudget ==
  [][\A p \in Procs :
       (pc[p] = "commit1" /\ tree[p] = "over") => ~obs'[p].commit_called]_vars

\* C8: for every issue, at most one Run ever reaches success.
C8_AtMostOneSuccess ==
  \A i \in Issues : Cardinality({k \in RunsOf(i) : "success" \in ever[k]}) <= 1

\* C9: a Run whose pass 1 tried every backend and left the tree clean ends
\* deferred when some backend was unavailable, and otherwise failed with the
\* "no file changes" error and one failure comment.
C9_DeferredOrFailed ==
  \A p \in Procs :
    (pc[p] = "return" /\ obs[p].p1 = "clean")
      => IF obs[p].p1_unavail
         THEN ledger[loc[p].run].status = "deferred"
         ELSE /\ ledger[loc[p].run].status = "failed"
              /\ ledger[loc[p].run].error = "no file changes"
              /\ obs[p].fail_comments = 1

ExitedErrors == {ExitedError("claude"), ExitedError("codex")}

\* A run_backend call has just raised the RuntimeError of a Fatal subprocess run.
FatalRaised(p) ==
  obs[p].last_runs # <<>> /\ Last(obs[p].last_runs) = "fatal"

C11_TimeoutStopsPass ==
  [][\A p \in Procs :
       (pc[p] = "implementer" /\ obs'[p].last_timeout)
         => ~(/\ pc'[p] = "implementer"
              /\ loc'[p].idx <= Len(backend_order(loc'[p].labs)))]_vars


\* C12: the review loop runs at most review_rounds rounds; the status written
\* after the loop is success exactly when a round's verdict was APPROVE, and
\* needs_human when every round returned CHANGES_REQUESTED.
C12_ReviewLoopOutcome ==
  [][\A p \in Procs :
       /\ loc'[p].round <= review_rounds
       /\ (pc[p] = "finish" /\ loc[p].approved)
            => ledger'[loc[p].run].status = "success"
       /\ (pc[p] = "finish" /\ ~loc[p].approved)
            => ledger'[loc[p].run].status = "needs_human"
       /\ \A k \in 1..Len(ledger) :
            (ledger[k].status # "success" /\ ledger'[k].status = "success")
              => (loc[p].run = k /\ loc[p].approved)]_vars


\* C13: within one Run create_pr is called at most once; a Run that is success
\* called it exactly once and its ledger pr_url is the URL that call returned.
C13_OnePrPerRun ==
  \A p \in Procs :
    /\ obs[p].pr_calls <= 1
    /\ (pc[p] \in {"mark", "final_comment"} /\ ledger[loc[p].run].status = "success")
         => /\ obs[p].pr_calls = 1
            /\ loc[p].pr_url # "none"
            /\ ledger[loc[p].run].pr_url = loc[p].pr_url
    /\ (pc[p] = "return" /\ ledger[loc[p].run].status = "success")
         => /\ obs[p].pr_calls = 1
            /\ ledger[loc[p].run].pr_url # "none"

\* A call returns with its Run success after a feedback commit was pushed in
\* the review loop.
C13_Witness ==
  \E p \in Procs :
    /\ pc[p] = "return"
    /\ ledger[loc[p].run].status = "success"
    /\ ledger[loc[p].run].agent_output >= 4
    /\ obs[p].pr_calls = 1


SwapOk(labs, r, add, out) ==
  /\ (out.get /\ out.add) => (r[1] = "ok" /\ add \in r[2])
  /\ r[1] = "ok" => (add \in r[2] /\ r[2] \subseteq labs \cup {add})
  /\ (out.get /\ out.rm_issue) => issue_label \notin r[2]
  /\ (out.get /\ out.rm_ready) => ready_label \notin r[2]
  /\ (out.get /\ ~out.add) => (r[1] = "raise" /\ r[2] \subseteq labs)

C15_PrUrlNeedsPush ==
  [][/\ \A k \in 1..Len(ledger) :
          ledger'[k].pr_url # ledger[k].pr_url
            => \E p \in Procs : loc[p].run = k /\ obs[p].pushed
     /\ \A k \in (Len(ledger) + 1)..Len(ledger') : ledger'[k].pr_url = "none"]_vars

\* A Run of the ledger has a pr_url.
C15_Witness ==
  \E k \in 1..Len(ledger) : ledger[k].pr_url # "none"


\* C16 as stated: whenever a backend call of process_issue raises, the Run
\* goes to the handler that sets it FAILED.
C16_AnyBackendRaiseFails ==
  [][\A p \in Procs :
       (/\ pc[p] \in {"implementer", "reviewer"}
        /\ obs'[p].last_runs # <<>>
        /\ Last(obs'[p].last_runs) # "ok")
         => pc'[p] = "except"]_vars

\* C16, amended: an exception that leaves the try block of process_issue is
\* raised into the handler and nowhere else; the handler sets the Run FAILED
\* with the text of the exception, then attempts one failure comment whose own
\* failure changes nothing, and process_issue returns with the Run FAILED.
C16_HandlerFails ==
  [][\A p \in Procs :
       /\ loc'[p].exc # loc[p].exc
            => (loc'[p].exc = "none" \/ pc'[p] = "except")
       /\ pc[p] = "except"
            => /\ pc'[p] = "except_comment"
               /\ ledger'[loc[p].run].status = "failed"
               /\ ledger'[loc[p].run].error = loc[p].exc
       /\ pc[p] = "except_comment"
            => /\ pc'[p] = "return"
               /\ ledger' = ledger
               /\ obs'[p].fail_comments \in {obs[p].fail_comments, obs[p].fail_comments + 1}
       /\ (pc[p] = "return" /\ loc[p].exc # "none")
            => /\ ledger[loc[p].run].status = "failed"
               /\ ledger[loc[p].run].error = loc[p].exc
               /\ obs[p].fail_comments <= 1
               /\ pc'[p] \in {"idle", "poll_issue"}]_vars

\* process_issue returns after a failed git command: the Run is FAILED with the
\* error text and the failure comment could not be posted.
C16_Witness ==
  \E p \in Procs :
    /\ pc[p] = "return"
    /\ loc[p].exc = "git failed"
    /\ ledger[loc[p].run].status = "failed"
    /\ ledger[loc[p].run].error = "git failed"
    /\ obs[p].fail_comments = 0


\* C17 as stated: a process_issue call that returns has written a run report.
C17_ReportWritten ==
  \A p \in Procs : pc[p] = "return" => obs[p].reports >= 1


\* C19 as stated, for the configuration the program has (max_issues_per_poll
\* absent, which the claim calls unlimited): a poll_once cycle that comes to a
\* listed, eligible issue with no Run in the claim set goes on to
\* process_issue for it, however many issues it has processed.
C19_UnlimitedProcessesAll ==
  \A p \in Procs :
    (/\ pc[p] = "poll_issue"
     /\ loc[p].queue # <<>>
     /\ "max_issues_per_poll" \notin ConfigFields
     /\ \A k \in RunsOf(Head(loc[p].queue)) : ledger[k].status \notin ClaimSet
     /\ should_process(labels[Head(loc[p].queue)]))
    => PollDecision(ledger, loc[p].processed, Head(loc[p].queue),
                    labels[Head(loc[p].queue)]) = "process"


\* C20 as stated: the ledger row of a successful Run names the backend that
\* produced the change and holds a token total (0 at least), not NULL.
C20_UsageRecorded ==
  \A k \in 1..Len(ledger) :
    ledger[k].status = "success"
      => /\ ledger[k].agent_name \in {"claude", "codex", "gemini"}
         /\ ledger[k].tokens_used # "none"


\* The keyword w occurs in the text, in any spelling.
TextHas(x, w) == \E i \in 1..Len(x) : \E k \in 1..Len(x[i]) : Keyword(x[i][k]) = w

\* The lines of a text that begin with VERDICT: in any spelling.
VerdictLines(t) == {i \in 1..Len(t) : t[i] # <<>> /\ Keyword(t[i][1]) = "verdict:"}

ParseDone == call.fn = "parse_reviewer_verdict" /\ call.done

\* C21 as stated: every input that does not both contain "approve" and lack
\* "changes" yields CHANGES_REQUESTED.
C21_ChangesNeverApproves ==
  ParseDone
    => (~(TextHas(call.arg, "approve") /\ ~TextHas(call.arg, "changes"))
          => call.out[1] = "CHANGES_REQUESTED")

\* C21, amended: parse_reviewer_verdict returns APPROVE or CHANGES_REQUESTED;
\* an input without "approve" yields CHANGES_REQUESTED; an input with no line
\* beginning with VERDICT: yields APPROVE exactly when it contains "approve"
\* and lacks "changes"; an input containing "changes" yields APPROVE only
\* through a VERDICT: line whose value contains APPROVE.
C21_FallbackHeuristic ==
  ParseDone
    => LET x == call.arg
           t == strip(x)
       IN /\ call.out[1] \in {"APPROVE", "CHANGES_REQUESTED"}
          /\ ~TextHas(x, "approve") => call.out[1] = "CHANGES_REQUESTED"
          /\ VerdictLines(t) = {}
               => (call.out[1] = "APPROVE"
                     <=> (TextHas(x, "approve") /\ ~TextHas(x, "changes")))
          /\ (call.out[1] = "APPROVE" /\ TextHas(x, "changes"))
               => \E i \in VerdictLines(t) :
                    \E k \in 2..Len(t[i]) : Keyword(t[i][k]) = "approve"

\* An output with "approve" and "changes" and no VERDICT: line was parsed
\* as CHANGES_REQUESTED.
C21_Witness ==
  /\ ParseDone
  /\ TextHas(call.arg, "approve")
  /\ TextHas(call.arg, "changes")
  /\ VerdictLines(strip(call.arg)) = {}
  /\ call.out[1] = "CHANGES_REQUESTED"


\* The value of a VERDICT: line, blanks stripped: what follows the colon.
VerdictValue(l) == LStripLine(Tail(l))

\* A VERDICT: line decides when its value starts with APPROVE or CHANGES.
Decides(l) == VerdictValue(l) # <<>> /\ Keyword(VerdictValue(l)[1]) \in {"approve", "changes"}

\* C22 as stated: the verdict comes from the first VERDICT: line that decides,
\* APPROVE when its value starts with APPROVE and CHANGES_REQUESTED when it
\* starts with CHANGES; the fallback heuristic is used when no line decides.
C22_VerdictLineFirst ==
  ParseDone
    => LET t == strip(call.arg)
           deciding == {i \in VerdictLines(t) : Decides(t[i])}
       IN IF deciding # {}
          THEN LET i == CHOOSE i \in deciding : \A j \in deciding : i <= j
               IN call.out[1] = IF Keyword(VerdictValue(t[i])[1]) = "approve"
                                THEN "APPROVE" ELSE "CHANGES_REQUESTED"
          ELSE call.out[1] = verdict_fallback(TextHas(t, "approve"), TextHas(t, "changes"))


RunCmdDone == call.fn = "run_cmd" /\ call.done

\* The subprocess ended with this exit code (a run that timed out has none).
ExitedWith(r, codes) == ~r.timed_out /\ r.returncode \in codes

\* Its combined output holds an unavailable pattern in some spelling.
HasPattern(r) ==
  /\ ~r.timed_out
  /\ \E k \in 1..Len(r.stdout \o r.stderr) :
       LowerPiece((r.stdout \o r.stderr)[k]) \in {"rate limit", "429 too many", "timed out"}

LabelBackend ==
  [l \in {model_label_claude, model_label_codex, model_label_gemini} |->
     IF l = model_label_claude THEN "claude"
     ELSE IF l = model_label_codex THEN "codex" ELSE "gemini"]

NoRepeat(order) == \A j, k \in 1..Len(order) : order[j] = order[k] => j = k

\* C24 as stated: the implementer order of a label set starts with the
\* backend its model-selection label names (for a set with one such label),
\* the other backends follow in default order, none twice; without a model
\* label the order is the default order.
C24_LabelledBackendFirst ==
  (call.fn = "backend_order" /\ call.done)
    => LET labs == call.arg
           model == labs \cap DOMAIN LabelBackend
       IN /\ NoRepeat(call.out)
          /\ model = {} => call.out = backend_order({})
          /\ \A l \in model :
               model = {l}
                 => /\ call.out[1] = LabelBackend[l]
                    /\ SelectSeq(call.out, LAMBDA b : b # LabelBackend[l])
                         = SelectSeq(backend_order({}), LAMBDA b : b # LabelBackend[l])


\* The backends a configured list names, in its order, each once.
ConfiguredOnce(parts) ==
  LET names == SelectSeq([k \in 1..Len(parts) |-> StripLower(parts[k])],
                         LAMBDA b : b # "")
      RECURSIVE Once(_, _)
      Once(q, seen) == IF q = <<>> THEN <<>>
                       ELSE IF Head(q) \in seen THEN Once(Tail(q), seen)
                       ELSE <<Head(q)>> \o Once(Tail(q), seen \cup {Head(q)})
  IN Once(names, {})

\* C25 as stated: without a model-selection label the reviewer order is the
\* configured reviewer_backend_order list, in its order and each backend at
\* most once; with one it is the implementer order of the issue.
C25_ConfiguredReviewerOrder ==
  (call.fn = "reviewer_backend_order" /\ call.done)
    => LET parts == call.arg[1]
           labs == call.arg[2]
       IN IF labs \cap {model_label_claude, model_label_codex, model_label_gemini} = {}
          THEN call.out = ConfiguredOnce(parts)
          ELSE call.out = backend_order(labs)


\* C26 as stated: is_issue_claimed returns true when the ledger holds a Run of
\* that issue of that repo with a status of the claim set, and false, without
\* error, otherwise (a Run of the same number in another repo does not count).
C26_ClaimedIffClaimSet ==
  \A i \in Issues :
    is_issue_claimed(ledger, i)
      = IF \E k \in RunsOf(i) : ledger[k].status \in ClaimSet THEN "true" ELSE "false"

\* C27: create_run adds one Run and leaves the others and their ids alone; the
\* new Run is pending, carries the given issue (number and repo) and trigger,
\* and has an id greater than the id of every Run there was; ids follow the
\* order of creation.
C27_CreateRunAppends ==
  [][Len(ledger') # Len(ledger)
       => LET n == Len(ledger) IN
          /\ Len(ledger') = n + 1
          /\ \A k \in 1..n : ledger'[k] = ledger[k]
          /\ call'.fn = "create_run"
          /\ ledger'[n + 1].status = "pending"
          /\ ledger'[n + 1].issue = call'.arg[1]
          /\ ledger'[n + 1].trigger = call'.arg[2]
          /\ ledger'[n + 1].pr_url = "none" /\ ledger'[n + 1].error = "none"
          /\ \A k \in 1..n : call'.out[1] > k
          /\ ledger'[call'.out[1]] = ledger'[n + 1]
          /\ \A j, k \in 1..Len(stamps') :
               j < k => stamps'[j].created_at <= stamps'[k].created_at]_vars

\* A second Run of an issue was created after the first one had been updated.
C27_Witness ==
  /\ Len(ledger) = 2
  /\ ledger[1].issue = ledger[2].issue
  /\ ledger[1].status = "success"
  /\ ledger[2].status = "pending"
  /\ call.fn = "create_run" /\ call.out = <<2>>
  /\ stamps[1].created_at < stamps[2].created_at


\* C28 as stated: an update_run call sets updated_at of its Run to now,
\* whatever the fields supplied.
C28_AlwaysTouches ==
  [][(Len(ledger') = Len(ledger) /\ call'.fn = "update_run" /\ now' = now)
       => stamps'[call'.arg[1]].updated_at = now]_vars

\* C28, amended: update_run with at least one field supplied sets exactly the
\* supplied fields of the Run and its updated_at (to now); every other field
\* of the Run, its created_at and every other Run keep their values; with no
\* field supplied nothing changes.  Every Run has updated_at >= created_at.
C28_UpdateFrame ==
  [][/\ (Len(ledger') = Len(ledger) /\ call'.fn = "update_run" /\ now' = now)
          => LET id == call'.arg[1]
                 patch == call'.arg[2]
             IN /\ \A f \in DOMAIN ledger[id] :
                     ledger'[id][f] = IF f \in DOMAIN patch THEN patch[f] ELSE ledger[id][f]
                /\ \A k \in 1..Len(ledger) : k # id => ledger'[k] = ledger[k]
                /\ \A k \in 1..Len(ledger) : k # id => stamps'[k] = stamps[k]
                /\ stamps'[id].created_at = stamps[id].created_at
                /\ stamps'[id].updated_at
                     = IF DOMAIN patch = {} THEN stamps[id].updated_at ELSE now
     /\ \A k \in 1..Len(stamps') : stamps'[k].updated_at >= stamps'[k].created_at
     /\ Len(stamps') = Len(ledger')]_vars

\* A Run was updated with a pr_url alone a second after its creation: its
\* status is untouched and updated_at is later than created_at.
C28_Witness ==
  /\ call.fn = "update_run"
  /\ call.arg = <<1, [pr_url |-> "pr"]>>
  /\ Len(ledger) = 2
  /\ ledger[1].status = "running"
  /\ ledger[1].pr_url = "pr"
  /\ stamps[1].updated_at > stamps[1].created_at


\* Where a call is before its Run exists, and before RUNNING is written.
BeforeRun == {"idle", "poll_repo", "poll_issue", "create_run"}

\* C29: the steps of a call up to and including the write of RUNNING touch
\* neither the working tree nor the labels, invoke no backend and make no
\* commit, push, pull request or comment; the step at create_run inserts the
\* pending Run; from the workspace setup on, the Run of the call has been
\* written pending and then running.
C29_RunningBeforeEffects ==
  [][\A p \in Procs :
       /\ pc[p] \in BeforeRun \cup {"set_running"}
            => /\ tree'[p] = tree[p]
               /\ labels' = labels
               /\ obs'[p].last_runs = <<>>
               /\ ~obs'[p].commit_called /\ ~obs'[p].pushed
               /\ obs'[p].pr_calls = 0 /\ obs'[p].fail_comments = 0
               /\ ~obs'[p].mark_done /\ ~obs'[p].mark_needs_human
       /\ pc[p] = "create_run"
            => /\ Len(ledger') = Len(ledger) + 1
               /\ ledger'[Len(ledger')].status = "pending"
               /\ loc'[p].run = Len(ledger')
       /\ pc[p] \notin BeforeRun \cup {"set_running"}
            => /\ Len(obs[p].hist) >= 2
               /\ obs[p].hist[1] = "pending"
               /\ obs[p].hist[2] = "running"
               /\ {"pending", "running"} \subseteq ever[loc[p].run]]_vars

\* A call is about to set up its workspace: its Run is running and nothing
\* outside the ledger has been touched.
C29_Witness ==
  \E p \in Procs :
    /\ pc[p] = "setup"
    /\ ledger[loc[p].run].status = "running"
    /\ obs[p].hist = <<"pending", "running">>
    /\ tree[p] = "clean"


\* C30 as stated: a poll_once cycle that comes to a listed issue with a Run
\* in the claim set skips it and goes on (to return its count of processed
\* issues), and it goes on to process_issue only for an issue that is
\* unclaimed and eligible.
C30_SkipsClaimed ==
  \A p \in Procs :
    (pc[p] = "poll_issue" /\ loc[p].queue # <<>>)
      => LET i == Head(loc[p].queue)
             d == PollDecision(ledger, loc[p].processed, i, labels[i])
             claimed == \E k \in RunsOf(i) : ledger[k].status \in ClaimSet
         IN /\ claimed => d = "skip"
            /\ d = "process" => (~claimed /\ should_process(labels[i]))


\* The request of the POST just handled, and the configured secret.
PostHandled == call.fn = "do_POST"

PostSecret == call.arg[1]

PostRequest == call.arg[2]

\* C31 as stated: with webhook_secret configured, a POST whose
\* X-Hub-Signature-256 header is missing or differs from "sha256=" +
\* HMAC-SHA256(secret, raw body) is answered 403 and does not reach
\* run_single: no Run is created or about to be.
C31_SignatureRejected ==
  (/\ PostHandled
   /\ PostSecret # ""
   /\ PostRequest.signature.text # Digest("sha256=", PostSecret, PostRequest.body))
    => /\ call.out = <<"403">>
       /\ ledger = <<>>
       /\ \A p \in Procs : pc[p] = "idle"

\* A request the webhook is to accept: an issues event, action labeled, an
\* allowed label, a configured repository, and a signature that verifies.
Acceptable(secret, req) ==
  /\ req.content_length = "length"
  /\ verify_signature(secret, req.signature, req.body) = "true"
  /\ req.event = "issues"
  /\ req.body.json
  /\ req.body.action = "labeled"
  /\ req.body.label \in allowed_labels
  /\ \E k \in 1..Len(target_repos) : target_repos[k] = req.body.repo

\* C32 as stated: a request with event issues, action labeled, an allowed
\* label and a configured repository is answered 200 accepted and then handed
\* to run_single, in that order; for every other request run_single is not
\* invoked.
C32_AcceptedThenRunSingle ==
  PostHandled =>
    IF Acceptable(PostSecret, PostRequest)
    THEN call.out = <<"200 accepted", "run_single">>
    ELSE \A k \in 1..Len(call.out) : call.out[k] # "run_single"


\* The poller is about to sleep: poll_once was called and has left.
AboutToSleep ==
  call.fn = "run_poller" /\ call.done /\ \A p \in Procs : pc[p] = "idle"

C34_ImplementerPassOrder ==
  [][\A p \in Procs :
       (pc[p] = "implementer" /\ loc[p].idx <= Len(backend_order(loc[p].labs)))
         => LET order == backend_order(loc[p].labs)
                runs == obs'[p].last_runs
            IN /\ NoRepeat(order)
               /\ obs'[p].last_backend = order[loc[p].idx]
               /\ Len(runs) = 1
               /\ runs[1] = "unavailable"
                    => pc'[p] = "implementer" /\ loc'[p].idx = loc[p].idx + 1
               /\ (runs[1] = "ok" /\ has_changes(tree'[p]))
                    => pc'[p] # "implementer"]_vars


\* The reviewer pass of p has just ended with its last backend unavailable,
\* as every backend before it was.
AllReviewersUnavailable(p) ==
  /\ pc[p] = "save_review"
  /\ obs[p].last_backend = Last(reviewer_backend_order(loc[p].labs))
  /\ Last(obs[p].last_runs) = "unavailable"

\* C35: when every reviewer backend of a round is Unavailable the round's
\* verdict is the synthesized CHANGES_REQUESTED with its note, never APPROVE,
\* and the Run goes on: the transcript is saved, the round is commented and
\* the feedback pass starts (a failing comment apart); a reviewer backend that
\* returns OK ends the reviewer pass.
C35_SynthesizedChangesRequested ==
  [][\A p \in Procs :
       /\ AllReviewersUnavailable(p)'
            => /\ loc'[p].verdict = "CHANGES_REQUESTED"
               /\ synthesized_review[2] # ""
               /\ ledger' = ledger
       /\ (pc[p] = "save_review" /\ loc[p].verdict = "CHANGES_REQUESTED")
            => pc'[p] = "round_comment" /\ ledger'[loc[p].run].status = "running"
       /\ (pc[p] = "round_comment" /\ loc[p].verdict = "CHANGES_REQUESTED")
            => \/ pc'[p] = "implementer" /\ loc'[p].pass = loc[p].round + 1
               \/ pc'[p] = "except" /\ loc'[p].exc = "scm failed"
       /\ (pc[p] = "reviewer" /\ pc'[p] = "reviewer" /\ loc'[p] # loc[p])
            => Last(obs'[p].last_runs) = "unavailable"
       /\ (pc[p] = "reviewer" /\ obs'[p].last_backend # "none"
             /\ Last(obs'[p].last_runs) = "ok")
            => pc'[p] = "save_review"]_vars

\* Every reviewer backend was unavailable and the synthesized verdict stands.
C35_Witness ==
  \E p \in Procs :
    AllReviewersUnavailable(p) /\ loc[p].verdict = "CHANGES_REQUESTED"


\* C36 as stated: when the implementer-with-feedback pass of a review round
\* ends without working-tree changes and with some backend Unavailable, the
\* Run ends DEFERRED there and process_issue returns: no further reviewer
\* round, no commit_and_push and no label swap.
C36_FeedbackDeferred ==
  [][\A p \in Procs :
       (pc[p] = "fb_branch" /\ ~loc[p].has_changes /\ loc[p].any_unavailable)
         => /\ ledger'[loc[p].run].status = "deferred"
            /\ pc'[p] = "return"
            /\ labels' = labels
            /\ tree' = tree
            /\ obs'[p].pushed = obs[p].pushed]_vars


\* C37 as stated: the transcript of every completed backend invocation is in
\* the ledger's agent_output, also when a later invocation of the same pass
\* raises a fatal error; and agent_output of a Run only grows.
C37_TranscriptSaved ==
  [][\A p \in Procs :
       /\ (pc[p] \in {"implementer", "reviewer"} /\ pc'[p] = "except"
             /\ loc'[p].exc \in ExitedErrors)
            => ledger[loc[p].run].agent_output = loc[p].parts
       /\ \A k \in 1..Len(ledger) :
            ledger'[k].agent_output >= ledger[k].agent_output]_vars


C39_PrUrlRecorded ==
  [][\A p \in Procs :
       (/\ loc[p].run \in 1..Len(ledger)
        /\ loc[p].pr_url # "none"
        /\ ledger[loc[p].run].status \notin TerminalStatus
        /\ ledger'[loc[p].run].status \in TerminalStatus)
         => ledger'[loc[p].run].pr_url = loc[p].pr_url]_vars


\* The listing of a repository before the current one failed in this cycle:
\* the repository has a labeled issue, yet the loop went past it, which a
\* listing that returned the issue does not allow (the labels of an issue do
\* not change while the one orchestrator is polling).
EarlierListingFailed(p) ==
  \E k \in 1..(loc[p].repo_idx - 1) :
    get_labeled_issues(labels, target_repos[k]) # <<>>

\* C40 as stated: after a failed listing of one repository, poll_once still
\* lists the remaining repositories and processes their eligible unclaimed
\* issues.
C40_ListFailureIsolated ==
  \A p \in Procs :
    (/\ pc[p] = "poll_issue"
     /\ loc[p].queue # <<>>
     /\ EarlierListingFailed(p)
     /\ \A k \in RunsOf(Head(loc[p].queue)) : ledger[k].status \notin ClaimSet
     /\ should_process(labels[Head(loc[p].queue)]))
      => PollDecision(ledger, loc[p].processed, Head(loc[p].queue),
                      labels[Head(loc[p].queue)]) = "process"

====
